---- MODULE Spec2Model ----
(***************************************************************************)
(* Model of the ledger-totals pipeline of benchresttest: the page fetcher, *)
(* the accumulating do-while loop, the normalizer, the sort, the           *)
(* deduplicator and the aggregator.                                        *)
(*                                                                         *)
(* JavaScript values are records [t, n, s]: t is the type tag, n the       *)
(* number (or the time value of a Date, counted in days), s the string as  *)
(* a sequence of character codes, so that trim and the relational          *)
(* operators are computed and not assumed.                                  *)
(***************************************************************************)
EXTENDS Integers, Sequences, FiniteSets, TLC

(***************************************************************************)
(* Bounds of the model.                                                    *)
(***************************************************************************)
\* most records in one page served by the source
MaxPageLen == 1
\* largest totalCount a page declares
MaxTotal == 3
\* most page requests issued in one run
MaxFetches == 2
\* longest working set given to the pipeline in the Pipeline specification
MaxRecs == 3

(***************************************************************************)
(* JavaScript values.                                                      *)
(***************************************************************************)
Num(k) == [t |-> "number", n |-> k, s |-> <<>>]
NaN == [t |-> "NaN", n |-> 0, s |-> <<>>]
Str(cs) == [t |-> "string", n |-> 0, s |-> cs]
Undefined == [t |-> "undefined", n |-> 0, s |-> <<>>]
DateOf(time) == [t |-> "Date", n |-> time, s |-> <<>>]
InvalidDate == [t |-> "InvalidDate", n |-> 0, s |-> <<>>]

IsWhite(c) == c \in {9, 10, 11, 12, 13, 32}
IsDigit(c) == c \in 48..57

RECURSIVE SkipWhite(_)
SkipWhite(cs) ==
  IF cs # <<>> /\ IsWhite(Head(cs)) THEN SkipWhite(Tail(cs)) ELSE cs

RECURSIVE Reverse(_)
Reverse(cs) == IF cs = <<>> THEN <<>> ELSE Append(Reverse(Tail(cs)), Head(cs))

\* String.prototype.trim
Trim(cs) == Reverse(SkipWhite(Reverse(SkipWhite(cs))))

RECURSIVE DigitsValue(_, _)
DigitsValue(cs, acc) ==
  IF cs # <<>> /\ IsDigit(Head(cs))
    THEN DigitsValue(Tail(cs), acc * 10 + (Head(cs) - 48))
    ELSE acc

RECURSIVE SkipDigits(_)
SkipDigits(cs) ==
  IF cs # <<>> /\ IsDigit(Head(cs)) THEN SkipDigits(Tail(cs)) ELSE cs

\* parseInt rounding a negative text with a fraction down, as Math.floor
\* of the parsed decimal would
parseIntFloor(cs) ==
  LET t1 == SkipWhite(cs)
      signed == t1 # <<>> /\ Head(t1) \in {43, 45}
      neg == t1 # <<>> /\ Head(t1) = 45
      ds == IF signed THEN Tail(t1) ELSE t1
      fraction == SkipDigits(ds) # <<>> /\ Head(SkipDigits(ds)) = 46
  IN IF ds = <<>> \/ ~IsDigit(Head(ds)) THEN NaN
     ELSE Num(IF neg
                THEN 0 - DigitsValue(ds, 0) - (IF fraction THEN 1 ELSE 0)
                ELSE DigitsValue(ds, 0))

\* parseInt(text, 10): leading white space, a sign, then the digits up to
\* the first character that is none; NaN when there is no digit
parseInt(cs) ==
  LET t1 == SkipWhite(cs)
      signed == t1 # <<>> /\ Head(t1) \in {43, 45}
      neg == t1 # <<>> /\ Head(t1) = 45
      ds == IF signed THEN Tail(t1) ELSE t1
  IN IF ds = <<>> \/ ~IsDigit(Head(ds)) THEN NaN
     ELSE Num(IF neg THEN 0 - DigitsValue(ds, 0) ELSE DigitsValue(ds, 0))

\* new Date(text) on the date texts the source serves: an ISO 8601 date is
\* midnight UTC of that day (time value in days since the epoch), any other
\* text an Invalid Date
NewDate(text) ==
  CASE text = "2013-12-12" -> DateOf(16051)
    [] text = "2013-12-12T00:00:00.000Z" -> DateOf(16051)
    [] text = "2013-12-13" -> DateOf(16052)
    [] OTHER -> InvalidDate

\* ToNumber of a string: white space only is 0, digits their value, else NaN
StringToNumber(cs) ==
  LET t1 == Trim(cs)
  IN IF t1 = <<>> THEN Num(0)
     ELSE IF \A i \in 1..Len(t1) : IsDigit(t1[i]) THEN Num(DigitsValue(t1, 0))
     ELSE NaN

\* ToNumber, as the relational operators apply it to a non-string operand
ToNumber(x) ==
  CASE x.t = "number" -> x
    [] x.t = "Date" -> Num(x.n)
    [] x.t = "string" -> StringToNumber(x.s)
    [] OTHER -> NaN

RECURSIVE StrLess(_, _)
\* a < b on two strings: by character code, a proper prefix first
StrLess(a, b) ==
  IF b = <<>> THEN FALSE
  ELSE IF a = <<>> THEN TRUE
  ELSE IF Head(a) # Head(b) THEN Head(a) < Head(b)
  ELSE StrLess(Tail(a), Tail(b))

\* x < y
JsLess(x, y) ==
  IF x.t = "string" /\ y.t = "string" THEN StrLess(x.s, y.s)
  ELSE LET a == ToNumber(x)
           b == ToNumber(y)
       IN a.t = "number" /\ b.t = "number" /\ a.n < b.n

\* x + y on two numbers
JsAdd(x, y) == IF x.t = "NaN" \/ y.t = "NaN" THEN NaN ELSE Num(x.n + y.n)

(***************************************************************************)
(* Raw records, as the source serves them.  A null element of the          *)
(* transactions array has isNull set and no fields that are read.          *)
(***************************************************************************)
RawTx(d, l, a, c) ==
  [isNull |-> FALSE, Date |-> d, Ledger |-> l, Amount |-> a, Company |-> c]
NullTx ==
  [isNull |-> TRUE, Date |-> "", Ledger |-> Undefined, Amount |-> <<>>,
   Company |-> Undefined]

\* "A", "B", "*", "Unknown", "-117.81", "5", "5.99", "abc"
LedgerA == Str(<<65>>)
LedgerB == Str(<<66>>)
StarKey == <<42>>
UnknownKey == <<85, 110, 107, 110, 111, 119, 110>>
CompanyA == Str(<<65>>)
CompanyB == Str(<<66>>)
AmountNeg == <<45, 49, 49, 55, 46, 56, 49>>
AmountFive == <<53>>
AmountFrac == <<53, 46, 57, 57>>
AmountBad == <<97, 98, 99>>
\* "-0.5"
AmountSmallNeg == <<45, 48, 46, 53>>

(***************************************************************************)
(* normalizeTransaction                                                    *)
(***************************************************************************)
normalizeTransaction(tx) ==
  [date |-> NewDate(tx.Date),
   ledger |-> tx.Ledger,
   amount |-> parseInt(tx.Amount),
   company |-> tx.Company]

(***************************************************************************)
(* deep-equal, not strict, on two normalized records: the same keys, and   *)
(* each pair of values equal; two Dates by getTime() ===, two primitives   *)
(* by ==.                                                                  *)
(***************************************************************************)
LooseEq(x, y) ==
  CASE x.t = "NaN" \/ y.t = "NaN" -> FALSE
    [] x.t = y.t -> x = y
    [] {x.t, y.t} = {"string", "number"} ->
         LET a == ToNumber(x)
             b == ToNumber(y)
         IN a.t = "number" /\ b.t = "number" /\ a.n = b.n
    [] OTHER -> FALSE

ValueEqual(x, y) ==
  IF x.t \in {"Date", "InvalidDate"} \/ y.t \in {"Date", "InvalidDate"}
    THEN x.t = "Date" /\ y.t = "Date" /\ x.n = y.n
    ELSE LooseEq(x, y)

\* equal(tx, current); current is <<>> while it is undefined
equal(tx, current) ==
  /\ current # <<>>
  /\ ValueEqual(tx.date, current[1].date)
  /\ ValueEqual(tx.ledger, current[1].ledger)
  /\ ValueEqual(tx.amount, current[1].amount)
  /\ ValueEqual(tx.company, current[1].company)

(***************************************************************************)
(* deduplicateTransactions                                                 *)
(***************************************************************************)
RECURSIVE DedupLoop(_, _, _)
\* the loop forgetting `current` when it drops a record
DedupLoopForgets(txs, deduplicated, current) ==
  IF txs = <<>> THEN deduplicated
  ELSE IF ~equal(Head(txs), current)
    THEN DedupLoop(Tail(txs), Append(deduplicated, Head(txs)), <<Head(txs)>>)
    ELSE DedupLoop(Tail(txs), deduplicated, <<>>)

DedupLoop(txs, deduplicated, current) ==
  IF txs = <<>> THEN deduplicated
  ELSE IF ~equal(Head(txs), current)
    THEN DedupLoop(Tail(txs), Append(deduplicated, Head(txs)), <<Head(txs)>>)
    ELSE DedupLoop(Tail(txs), deduplicated, current)

deduplicateTransactions(txs) == DedupLoop(txs, <<>>, <<>>)

(***************************************************************************)
(* sortBy(transactions, ['date', 'ledger', 'company', 'amount']): the      *)
(* comparator is x < y ? -1 : x > y ? 1 : 0 on each property in turn, and  *)
(* Array.prototype.sort on a short array is a stable insertion sort.  With *)
(* an Invalid Date or a NaN among the values the comparator is no order    *)
(* (it answers 0 for pairs that are not equivalent); the insertion sort    *)
(* then leaves what it is given in an order that depends on the input.     *)
(***************************************************************************)
Compare(x, y) == IF JsLess(x, y) THEN 0 - 1 ELSE IF JsLess(y, x) THEN 1 ELSE 0

sorter(a, b) ==
  IF Compare(a.date, b.date) # 0 THEN Compare(a.date, b.date)
  ELSE IF Compare(a.ledger, b.ledger) # 0 THEN Compare(a.ledger, b.ledger)
  ELSE IF Compare(a.company, b.company) # 0 THEN Compare(a.company, b.company)
  ELSE Compare(a.amount, b.amount)

RECURSIVE InsertSorted(_, _)
InsertSorted(sorted, e) ==
  IF sorted = <<>> THEN <<e>>
  ELSE LET last == sorted[Len(sorted)]
       IN IF sorter(last, e) > 0
            THEN Append(InsertSorted(SubSeq(sorted, 1, Len(sorted) - 1), e), last)
            ELSE Append(sorted, e)

RECURSIVE SortLoop(_, _)
SortLoop(txs, sorted) ==
  IF txs = <<>> THEN sorted
  ELSE SortLoop(Tail(txs), InsertSorted(sorted, Head(txs)))

sortBy(txs) == SortLoop(txs, <<>>)

\* isBlank without its trim: only the missing and the empty string are blank
isBlankNoTrim(v) == v.t = "undefined" \/ v.s = <<>>

(***************************************************************************)
(* isBlank and calculateLedgerTotals.  The totals object is a function     *)
(* from its own keys to numbers.                                           *)
(***************************************************************************)
isBlank(v) == v.t = "undefined" \/ Trim(v.s) = <<>>

Put(obj, key, v) ==
  [k \in DOMAIN obj \cup {key} |-> IF k = key THEN v ELSE obj[k]]

LedgerStep(ledgerTotals, tx) ==
  LET t1 == Put(ledgerTotals, StarKey, JsAdd(ledgerTotals[StarKey], tx.amount))
      ledger == IF isBlank(tx.ledger) THEN UnknownKey ELSE tx.ledger.s
      t2 == IF ledger \in DOMAIN t1 THEN t1 ELSE Put(t1, ledger, Num(0))
  IN Put(t2, ledger, JsAdd(t2[ledger], tx.amount))

RECURSIVE LedgerLoop(_, _)
LedgerLoop(txs, ledgerTotals) ==
  IF txs = <<>> THEN ledgerTotals
  ELSE LedgerLoop(Tail(txs), LedgerStep(ledgerTotals, Head(txs)))

calculateLedgerTotals(txs) == LedgerLoop(txs, [k \in {StarKey} |-> Num(0)])

\* the three steps getLedgerTotals applies to the working set
LedgerTotalsOf(txs) ==
  calculateLedgerTotals(deduplicateTransactions(sortBy(txs)))

(***************************************************************************)
(* The records and the responses the source may serve.                     *)
(***************************************************************************)
TxA == RawTx("2013-12-12", LedgerA, AmountNeg, CompanyA)
\* the same day written with its time: normalizes to the record of TxA
TxATime == RawTx("2013-12-12T00:00:00.000Z", LedgerA, AmountNeg, CompanyA)
\* differs from TxA in the company only
TxB == RawTx("2013-12-12", LedgerA, AmountNeg, CompanyB)
TxStar == RawTx("2013-12-13", Str(StarKey), AmountFive, CompanyA)
TxBlank == RawTx("2013-12-13", Str(<<32>>), AmountFrac, CompanyA)
TxBadDate == RawTx("yesterday", LedgerA, AmountNeg, CompanyA)
TxBadAmount == RawTx("2013-12-12", LedgerA, AmountBad, CompanyA)
\* records for the aggregator: a second ledger, a ledger that is the empty
\* string, a record without a Ledger field, a ledger that is literally
\* "Unknown", and an amount between -1 and 0
TxLedgerB == RawTx("2013-12-13", LedgerB, AmountFive, CompanyA)
TxEmpty == RawTx("2013-12-13", Str(<<>>), AmountFive, CompanyB)
TxNoLedger == RawTx("2013-12-13", Undefined, AmountNeg, CompanyB)
TxUnknown == RawTx("2013-12-13", Str(UnknownKey), AmountFive, CompanyA)
TxSmallNeg == RawTx("2013-12-13", LedgerB, AmountSmallNeg, CompanyA)

\* what a page of a run may hold
RunPool == {TxA, TxB, TxBadDate, NullTx}
\* what the working set of the Pipeline specification is drawn from
PipePool == {TxA, TxATime, TxB, TxStar, TxBlank, TxBadDate, TxBadAmount}
\* what the records of the Scenario specification are drawn from
ScenarioPool == {TxA, TxB, TxStar, TxBlank, TxLedgerB, TxBadDate}
\* what the list given to the Totals specification is drawn from
TotalsPool ==
  {TxA, TxLedgerB, TxStar, TxBlank, TxEmpty, TxNoLedger, TxUnknown,
   TxSmallNeg, TxBadAmount}

SeqsUpTo(S, k) == UNION {[1..m -> S] : m \in 0..k}

Response(hasPage, page, hasTotalCount, totalCount, txType, txs) ==
  [hasPage |-> hasPage, page |-> page, hasTotalCount |-> hasTotalCount,
   totalCount |-> totalCount, txType |-> txType, transactions |-> txs]

\* the responses to a request of page p: well formed ones, and one of each
\* way a response can be malformed (txType is what the transactions field
\* holds: "array", "null", "string", or "missing"); among the well formed
\* ones is a page with a record followed by a null element, whatever
\* MaxPageLen is
Responses(p) ==
  {Response(TRUE, p, TRUE, c, "array", txs) :
      c \in 0..MaxTotal,
      txs \in SeqsUpTo(RunPool, MaxPageLen) \cup {<<TxA, NullTx>>}}
  \cup {Response(TRUE, p, TRUE, c, "null", <<>>) : c \in 0..MaxTotal}
  \cup {Response(FALSE, 0, TRUE, 0, "array", <<>>),
        Response(TRUE, p + 1, TRUE, 0, "array", <<>>),
        Response(TRUE, p, FALSE, 0, "array", <<>>),
        Response(TRUE, p, TRUE, 0, "missing", <<>>),
        Response(TRUE, p, TRUE, 0, "string", <<>>)}

(***************************************************************************)
(* fetchTransactionsPage: the error it passes to next, "" when it passes   *)
(* the results (typeof null is 'object', as typeof of an array is).        *)
(***************************************************************************)
TypeofTransactions(results) ==
  IF results.txType \in {"array", "null"} THEN "object" ELSE results.txType

fetchTransactionsPage(pageNumber, results) ==
  IF ~results.hasPage THEN "expected page number in results"
  ELSE IF results.page # pageNumber THEN "expected page number not in results"
  ELSE IF ~results.hasTotalCount THEN "expected total count in results"
  ELSE IF results.txType = "missing" THEN "expected transactions in results"
  ELSE IF TypeofTransactions(results) # "object"
    THEN "expected transactions to be an object"
  ELSE ""

(***************************************************************************)
(* State of one run of getLedgerTotals.                                    *)
(*   expectedTotalCount, transactions, pageNumber: getTransactions' locals *)
(*   inflight: the page requested and not yet answered, 0 when none        *)
(*   fetches: the page numbers requested so far, in order                  *)
(*   log: one entry for each answered request                              *)
(*   delivered: what the caller's callback has been called with, in order  *)
(* State of the Pipeline specification: the raw records of two working     *)
(* sets, and what sort, deduplication and aggregation made of them.        *)
(***************************************************************************)
VARIABLES expectedTotalCount, transactions, pageNumber, inflight, fetches,
          log, delivered, rawA, rawB, stage, sortedA, dedupA, totalsA, totalsB

runVars ==
  <<expectedTotalCount, transactions, pageNumber, inflight, fetches, log,
    delivered>>
pipeVars == <<rawA, rawB, stage, sortedA, dedupA, totalsA, totalsB>>
vars == <<runVars, pipeVars>>

NoTotals == [k \in {} |-> Num(0)]

RunInit ==
  /\ expectedTotalCount = 0
  /\ transactions = <<>>
  /\ pageNumber = 1
  /\ inflight = 0
  /\ fetches = <<>>
  /\ log = <<>>
  /\ delivered = <<>>

PipeIdle ==
  /\ rawA = <<>>
  /\ rawB = <<>>
  /\ stage = "idle"
  /\ sortedA = <<>>
  /\ dedupA = <<>>
  /\ totalsA = NoTotals
  /\ totalsB = NoTotals

Init == RunInit /\ PipeIdle

\* In the Scenario specification the source holds the records of rawA and
\* serves them in pages of two, each declaring their count (stage is
\* "source"); in the other runs it may answer with any response.
ScriptedPage(p) ==
  SubSeq(rawA, 2 * p - 1, IF 2 * p < Len(rawA) THEN 2 * p ELSE Len(rawA))
Served(p) ==
  IF stage = "source"
    THEN {Response(TRUE, p, TRUE, Len(rawA), "array", ScriptedPage(p))}
    ELSE Responses(p)
\* In the Live specification (stage is "live") a run is followed without
\* an end: fetches and log keep their latest element only, and the page
\* numbers from MaxFetches on are not told apart (hasMorePages reads none
\* of the three).  The other specifications keep the whole history.
Live == stage = "live"
Requested(p) == IF Live THEN <<p>> ELSE Append(fetches, p)
Logged(entry) == IF Live THEN <<entry>> ELSE Append(log, entry)
Incremented(p) == IF Live /\ p >= MaxFetches THEN p ELSE p + 1
\* the requests a run is followed for
FetchCap ==
  IF stage = "source" THEN (Len(rawA) + 1) \div 2
  ELSE IF Live THEN Len(fetches) + 1
  ELSE MaxFetches

\* hasMorePages with <= for <: a page more once the total is reached
hasMorePagesInclusive == Len(transactions) <= expectedTotalCount

\* hasMorePages
hasMorePages == Len(transactions) < expectedTotalCount

\* what the callback of getLedgerTotals passes to the caller, given what
\* getTransactions passes to it
Failure(err) ==
  [kind |-> "error", err |-> err, transactions |-> <<>>, totals |-> NoTotals]
Success(txs) ==
  [kind |-> "result", err |-> "", transactions |-> txs,
   totals |-> LedgerTotalsOf(txs)]

\* an answered request: the page requested, how the iteration ended
\* ("transport", "rejected", "threw", "accumulated"), the error passed to
\* next, the results received, the records pushed, and what the
\* iteration called next with, call by call ("null" for next(null))
LogEntry(page, outcome, err, results, pushed, calls) ==
  [page |-> page, outcome |-> outcome, err |-> err, results |-> results,
   pushed |-> pushed, calls |-> calls]
NoResults == Response(FALSE, 0, FALSE, 0, "missing", <<>>)

\* the records of a page that forEach pushes: all of them, or those before
\* the first null element, where normalizeTransaction throws
RECURSIVE Pushed(_)
Pushed(txs) ==
  IF txs = <<>> \/ Head(txs).isNull THEN <<>>
  ELSE <<normalizeTransaction(Head(txs))>> \o Pushed(Tail(txs))

\* whether the try block throws on these results: forEach of null, or the
\* Date of a null element
Throws(results) ==
  \/ results.txType # "array"
  \/ \E i \in 1..Len(results.transactions) : results.transactions[i].isNull

\* next(null) of the do-while loop, in the state the iteration left: test
\* hasMorePages, then either run accumulateTransactions again, which
\* requests the page pageNumber names, or call the final callback.
\* doWhilst is the loop of async 0.9/1.x: it acts on every call of next and
\* does not guard its final callback against a second call.  dlv is what
\* the caller was given before this call of next.
NextNull(dlv) ==
  IF hasMorePages'
    THEN /\ Len(fetches) < FetchCap
         /\ fetches' = Requested(pageNumber')
         /\ inflight' = pageNumber'
         /\ delivered' = dlv
    ELSE /\ fetches' = fetches
         /\ inflight' = 0
         /\ delivered' = Append(dlv, Success(transactions'))

\* next(err) of the do-while loop: the final callback gets the error
NextErr(err) == Append(delivered, Failure(err))

\* getLedgerTotals over a loop that tests before its first iteration
\* (whilst for doWhilst): nothing is requested from the initial state
getLedgerTotalsTestFirst ==
  /\ fetches = <<>>
  /\ delivered = <<>>
  /\ IF hasMorePages
       THEN /\ fetches' = <<pageNumber>>
            /\ inflight' = pageNumber
            /\ delivered' = delivered
       ELSE /\ fetches' = fetches
            /\ inflight' = 0
            /\ delivered' = <<Success(transactions)>>
  /\ UNCHANGED <<expectedTotalCount, transactions, pageNumber, log>>
  /\ UNCHANGED pipeVars

(***************************************************************************)
(* getLedgerTotals(next): getTransactions starts the do-while loop, which  *)
(* runs accumulateTransactions once before any test.                       *)
(***************************************************************************)
getLedgerTotals ==
  /\ fetches = <<>>
  /\ fetches' = <<pageNumber>>
  /\ inflight' = pageNumber
  /\ UNCHANGED <<expectedTotalCount, transactions, pageNumber, log, delivered>>
  /\ UNCHANGED pipeVars

(***************************************************************************)
(* The callback accumulateTransactions gives to fetchTransactionsPage, on  *)
(* each way a request can end.                                             *)
(***************************************************************************)
\* the transport emits 'error'
TransportError ==
  /\ inflight # 0
  /\ log' = Logged(LogEntry(inflight, "transport", "ECONNRESET",
                   NoResults, <<>>, <<"ECONNRESET">>))
  /\ delivered' = NextErr("ECONNRESET")
  /\ inflight' = 0
  /\ UNCHANGED <<expectedTotalCount, transactions, pageNumber, fetches>>
  /\ UNCHANGED pipeVars

\* the response fails a check of fetchTransactionsPage
ResponseRejected ==
  /\ inflight # 0
  /\ \E results \in Served(inflight) :
       /\ fetchTransactionsPage(inflight, results) # ""
       /\ log' = Logged(LogEntry(inflight, "rejected",
                   fetchTransactionsPage(inflight, results), results, <<>>,
                   <<fetchTransactionsPage(inflight, results)>>))
       /\ delivered' = NextErr(fetchTransactionsPage(inflight, results))
  /\ inflight' = 0
  /\ UNCHANGED <<expectedTotalCount, transactions, pageNumber, fetches>>
  /\ UNCHANGED pipeVars

\* PageAccumulated cutting the working set down to the totalCount declared
PageAccumulatedTrims ==
  /\ inflight # 0
  /\ \E results \in Served(inflight) :
       /\ fetchTransactionsPage(inflight, results) = ""
       /\ ~Throws(results)
       /\ expectedTotalCount' = results.totalCount
       /\ transactions' =
            LET all == transactions \o Pushed(results.transactions)
            IN IF Len(all) > results.totalCount
                 THEN SubSeq(all, 1, results.totalCount) ELSE all
       /\ pageNumber' = Incremented(pageNumber)
       /\ log' = Logged(LogEntry(inflight, "accumulated", "",
                   results, Pushed(results.transactions), <<"null">>))
       /\ NextNull(delivered)
  /\ UNCHANGED pipeVars

\* PageAccumulated keeping the largest totalCount seen instead of the latest
PageAccumulatedKeepsMax ==
  /\ inflight # 0
  /\ \E results \in Served(inflight) :
       /\ fetchTransactionsPage(inflight, results) = ""
       /\ ~Throws(results)
       /\ expectedTotalCount' =
            IF results.totalCount > expectedTotalCount
              THEN results.totalCount ELSE expectedTotalCount
       /\ transactions' = transactions \o Pushed(results.transactions)
       /\ pageNumber' = Incremented(pageNumber)
       /\ log' = Logged(LogEntry(inflight, "accumulated", "",
                   results, Pushed(results.transactions), <<"null">>))
       /\ NextNull(delivered)
  /\ UNCHANGED pipeVars

\* the response passes, and the try block runs to its end: next(null)
PageAccumulated ==
  /\ inflight # 0
  /\ \E results \in Served(inflight) :
       /\ fetchTransactionsPage(inflight, results) = ""
       /\ ~Throws(results)
       /\ expectedTotalCount' = results.totalCount
       /\ transactions' = transactions \o Pushed(results.transactions)
       /\ pageNumber' = Incremented(pageNumber)
       /\ log' = Logged(LogEntry(inflight, "accumulated", "",
                   results, Pushed(results.transactions), <<"null">>))
       /\ NextNull(delivered)
  /\ UNCHANGED pipeVars

\* the response passes, and the try block throws after the assignment of
\* expectedTotalCount: the catch calls next(e), and next(null) follows it
PageThrows ==
  /\ inflight # 0
  /\ \E results \in Served(inflight) :
       /\ fetchTransactionsPage(inflight, results) = ""
       /\ Throws(results)
       /\ expectedTotalCount' = results.totalCount
       /\ transactions' = transactions \o Pushed(results.transactions)
       /\ pageNumber' = pageNumber
       /\ log' = Logged(LogEntry(inflight, "threw", "TypeError",
                   results, Pushed(results.transactions),
                   <<"TypeError", "null">>))
       /\ NextNull(NextErr("TypeError"))
  /\ UNCHANGED pipeVars

Next ==
  \/ getLedgerTotals
  \/ TransportError
  \/ ResponseRejected
  \/ PageAccumulated
  \/ PageThrows

Spec == Init /\ [][Next]_vars

(***************************************************************************)
(* The Pipeline specification: the three steps of getLedgerTotals' callback *)
(* on a working set (A), and on the same records appended in another order  *)
(* (B).                                                                     *)
(***************************************************************************)
RECURSIVE NormalizeAll(_)
NormalizeAll(txs) ==
  IF txs = <<>> THEN <<>>
  ELSE <<normalizeTransaction(Head(txs))>> \o NormalizeAll(Tail(txs))

Reorderings(txs) ==
  {[i \in 1..Len(txs) |-> txs[f[i]]] :
     f \in {g \in [1..Len(txs) -> 1..Len(txs)] :
              \A i, j \in 1..Len(txs) : i # j => g[i] # g[j]}}

PipeInit ==
  /\ RunInit
  /\ rawA \in SeqsUpTo(PipePool, MaxRecs)
  /\ rawB \in Reorderings(rawA)
  /\ stage = "input"
  /\ sortedA = <<>>
  /\ dedupA = <<>>
  /\ totalsA = NoTotals
  /\ totalsB = NoTotals

SortStep ==
  /\ stage = "input"
  /\ stage' = "sorted"
  /\ sortedA' = sortBy(NormalizeAll(rawA))
  /\ UNCHANGED <<rawA, rawB, dedupA, totalsA, totalsB>>
  /\ UNCHANGED runVars

DedupStep ==
  /\ stage = "sorted"
  /\ stage' = "deduplicated"
  /\ dedupA' = deduplicateTransactions(sortedA)
  /\ UNCHANGED <<rawA, rawB, sortedA, totalsA, totalsB>>
  /\ UNCHANGED runVars

TotalsStep ==
  /\ stage = "deduplicated"
  /\ stage' = "done"
  /\ totalsA' = calculateLedgerTotals(dedupA)
  /\ totalsB' = LedgerTotalsOf(NormalizeAll(rawB))
  /\ UNCHANGED <<rawA, rawB, sortedA, dedupA>>
  /\ UNCHANGED runVars

PipeNext ==
  \/ SortStep
  \/ DedupStep
  \/ TotalsStep

PipelineSpec == PipeInit /\ [][PipeNext]_vars

(***************************************************************************)
(* The Totals specification: calculateLedgerTotals applied to a list of    *)
(* normalized records in the order given (rawA holds the raw records,      *)
(* dedupA the list the aggregator is called with, totalsA its result).     *)
(***************************************************************************)
TotalsInit ==
  /\ RunInit
  /\ rawA \in SeqsUpTo(TotalsPool, MaxRecs)
  /\ rawB = <<>>
  /\ stage = "records"
  /\ sortedA = <<>>
  /\ dedupA = <<>>
  /\ totalsA = NoTotals
  /\ totalsB = NoTotals

TotalsCall ==
  /\ stage = "records"
  /\ dedupA' = NormalizeAll(rawA)
  /\ totalsA' = calculateLedgerTotals(dedupA')
  /\ stage' = "totalled"
  /\ UNCHANGED <<rawA, rawB, sortedA, totalsB>>
  /\ UNCHANGED runVars

TotalsNext == TotalsCall

TotalsSpec == TotalsInit /\ [][TotalsNext]_vars

(***************************************************************************)
(* The List specification: deduplicateTransactions applied to a list of    *)
(* normalized records in the order given, sorted or not (sortedA holds the *)
(* list it is called with, dedupA its result).                             *)
(***************************************************************************)
ListInit ==
  /\ RunInit
  /\ rawA \in SeqsUpTo(PipePool, MaxRecs)
  /\ rawB = <<>>
  /\ stage = "list"
  /\ sortedA = <<>>
  /\ dedupA = <<>>
  /\ totalsA = NoTotals
  /\ totalsB = NoTotals

ListCall ==
  /\ stage = "list"
  /\ sortedA' = NormalizeAll(rawA)
  /\ dedupA' = deduplicateTransactions(sortedA')
  /\ stage' = "listDeduplicated"
  /\ UNCHANGED <<rawA, rawB, totalsA, totalsB>>
  /\ UNCHANGED runVars

ListNext == ListCall

ListSpec == ListInit /\ [][ListNext]_vars

(***************************************************************************)
(* The Scenario specification: a run of getLedgerTotals against a source   *)
(* that holds five records, four different ones and a second copy of one   *)
(* of them next to it across a page boundary, served in pages of 2, 2, 1.  *)
(***************************************************************************)
ScenarioInit ==
  /\ RunInit
  /\ \E r1, r2, r3, r4 \in ScenarioPool :
       /\ Cardinality({r1, r2, r3, r4}) = 4
       /\ rawA \in {<<r1, r2, r2, r3, r4>>, <<r1, r2, r3, r4, r4>>}
  /\ rawB = <<>>
  /\ stage = "source"
  /\ sortedA = <<>>
  /\ dedupA = <<>>
  /\ totalsA = NoTotals
  /\ totalsB = NoTotals

ScenarioNext ==
  \/ getLedgerTotals
  \/ PageAccumulated

ScenarioSpec == ScenarioInit /\ [][ScenarioNext]_vars

(***************************************************************************)
(* The Live specification: a run against a source whose every answer is a  *)
(* page that is processed without a throw or an error, and that does       *)
(* answer every request.                                                   *)
(***************************************************************************)
LiveInit ==
  /\ RunInit
  /\ rawA = <<>>
  /\ rawB = <<>>
  /\ stage = "live"
  /\ sortedA = <<>>
  /\ dedupA = <<>>
  /\ totalsA = NoTotals
  /\ totalsB = NoTotals

LiveNext ==
  \/ getLedgerTotals
  \/ TransportError
  \/ ResponseRejected
  \/ PageAccumulated

LiveSpec == LiveInit /\ [][LiveNext]_vars /\ WF_vars(LiveNext)

(***************************************************************************)
(* Properties.                                                             *)
(***************************************************************************)
Last == log[Len(log)]
Processed(e) == e.outcome \in {"accumulated", "threw"}
ResultDelivered == \E j \in DOMAIN delivered : delivered[j].kind = "result"
\* the iteration k is the first of the run that ended in an error
FirstError(k) ==
  /\ log[k].outcome # "accumulated"
  /\ \A j \in 1..(k - 1) : log[j].outcome = "accumulated"

RECURSIVE SumAmounts(_)
SumAmounts(txs) ==
  IF txs = <<>> THEN Num(0) ELSE JsAdd(Head(txs).amount, SumAmounts(Tail(txs)))

Range(f) == {f[i] : i \in DOMAIN f}
Occurrences(f, x) == Cardinality({i \in DOMAIN f : f[i] = x})

\* C1: in a run where a fetch failed, a page was rejected or the processing
\* of a page threw, the caller is never given a working set or a mapping of
\* totals: everything delivered is a failure.
C1_AllOrNothing ==
  (\E k \in DOMAIN log : log[k].outcome # "accumulated")
     => \A j \in DOMAIN delivered : delivered[j].kind = "error"

\* C2: the '*' entry of calculateLedgerTotals' result is the sum of the
\* amounts of the records it was given, each counted once, whatever their
\* ledgers are.
C2_StarIsSumOfAmounts ==
  stage = "done" => totalsA[StarKey] = SumAmounts(dedupA)

\* C3: the loop requests a further page only while the working set is
\* smaller than the totalCount of the latest page, whatever earlier pages
\* declared; after the first accumulated page that leaves it at or above
\* that totalCount the result is delivered and no request is outstanding
\* or issued later; no result is delivered below the latest totalCount.
C3_StopsAtLatestTotal ==
  /\ (inflight # 0 /\ log # <<>>)
       => Processed(Last) /\ Len(transactions) < Last.results.totalCount
  /\ (log # <<>> /\ Last.outcome = "accumulated"
        /\ Len(transactions) >= Last.results.totalCount)
       => /\ inflight = 0
          /\ Len(fetches) = Len(log)
          /\ delivered # <<>>
          /\ delivered[Len(delivered)].kind = "result"
          /\ delivered[Len(delivered)].transactions = transactions
  /\ ResultDelivered
       => /\ Processed(Last)
          /\ Len(transactions) >= Last.results.totalCount
          /\ inflight = 0
          /\ Len(fetches) = Len(log)

\* C3 witness: a run that ended with a result on a page whose totalCount
\* is below the totalCount of an earlier page, which was never reached.
C3_Witness ==
  /\ ResultDelivered
  /\ Last.outcome = "accumulated"
  /\ \E i \in 1..(Len(log) - 1) :
       /\ log[i].outcome = "accumulated"
       /\ log[i].results.totalCount > Last.results.totalCount
       /\ Len(transactions) < log[i].results.totalCount

\* C4: after the first iteration that ended in an error no page is
\* requested (the failing page is the last one requested), and the error the
\* caller gets first is that iteration's error.
C4_AbortWithoutRetry ==
  \A k \in DOMAIN log :
     FirstError(k)
       => /\ Len(fetches) = k
          /\ delivered # <<>>
          /\ delivered[1] = Failure(log[k].err)

\* C5: the pages are requested one at a time as 1, 2, 3, ..., none skipped
\* and none twice, and page N + 1 is requested only after every record of
\* page N was normalized and appended.
C5_SequentialPages ==
  /\ \A i \in DOMAIN fetches : fetches[i] = i
  /\ Len(fetches) <= Len(log) + 1
  /\ \A i \in 2..Len(fetches) :
       /\ log[i - 1].outcome = "accumulated"
       /\ Len(log[i - 1].pushed) = Len(log[i - 1].results.transactions)

\* C6: fetchTransactionsPage passes results on as a success only if they
\* hold the requested page number, a totalCount, and transactions that are
\* a collection: not missing, not a scalar, not null.
C6_SuccessOnlyIfWellFormed ==
  \A k \in DOMAIN log :
     Processed(log[k])
       => /\ log[k].results.hasPage
          /\ log[k].results.page = log[k].page
          /\ log[k].results.hasTotalCount
          /\ log[k].results.txType = "array"

\* C7: every record of a working set handed on for deduplication has a
\* valid date and a numeric amount.
C7_OnlyValidRecords ==
  \A j \in DOMAIN delivered :
     delivered[j].kind = "result"
       => \A i \in DOMAIN delivered[j].transactions :
             /\ delivered[j].transactions[i].date.t = "Date"
             /\ delivered[j].transactions[i].amount.t = "number"

\* C8: sorting and deduplicating a working set leaves exactly one record
\* for each distinct (date, ledger, company, amount) present in it.
C8_OnePerDistinctTuple ==
  stage \in {"deduplicated", "done"}
     => /\ Range(dedupA) = Range(NormalizeAll(rawA))
        /\ \A r \in Range(dedupA) : Occurrences(dedupA, r) = 1

\* C9: some page is requested before anything is delivered, the first one
\* being page 1; and when the first page is processed without error and
\* declares totalCount 0, the run is that one request and ends with a
\* result, not an error.
C9_ZeroTotalOneFetch ==
  /\ delivered # <<>> => fetches # <<>>
  /\ fetches # <<>> => fetches[1] = 1
  /\ (log # <<>> /\ log[1].outcome = "accumulated"
        /\ log[1].results.totalCount = 0)
       => /\ fetches = <<1>>
          /\ inflight = 0
          /\ delivered = <<Success(log[1].pushed)>>

\* C9 witness: the first page declared totalCount 0 and the run has ended
\* with a result after one request.
C9_Witness ==
  /\ Len(log) = 1
  /\ log[1].outcome = "accumulated"
  /\ log[1].results.totalCount = 0
  /\ Len(delivered) = 1
  /\ delivered[1].kind = "result"

\* C10: the same records appended in two different orders give the same
\* mapping of totals.
C10_SplitIndependent ==
  stage = "done" => totalsA = totalsB

\* the sequence without its i-th element
Without(f, i) == SubSeq(f, 1, i - 1) \o SubSeq(f, i + 1, Len(f))
EntryOrZero(obj, key) == IF key \in DOMAIN obj THEN obj[key] ELSE Num(0)
\* a category that is missing, empty, or made of white space only
BlankCategory(v) ==
  v.t = "undefined" \/ \A k \in DOMAIN v.s : v.s[k] \in {9, 10, 11, 12, 13, 32}

\* C11: each record whose ledger is missing, empty or white space only
\* contributes its amount to the "Unknown" entry and to the '*' entry of
\* calculateLedgerTotals' result (both are what they would be without the
\* record, plus its amount), and the result has no entry under its raw label.
C11_BlankIsUnknown ==
  stage = "totalled" =>
    \A i \in DOMAIN dedupA :
      BlankCategory(dedupA[i].ledger) =>
        LET rest == calculateLedgerTotals(Without(dedupA, i))
            amount == dedupA[i].amount
        IN /\ UnknownKey \in DOMAIN totalsA
           /\ dedupA[i].ledger.s \notin DOMAIN totalsA
           /\ totalsA[UnknownKey] = JsAdd(EntryOrZero(rest, UnknownKey), amount)
           /\ totalsA[StarKey] = JsAdd(rest[StarKey], amount)

\* a list with a white-space ledger, a missing ledger and a named ledger
\* has been aggregated
C11_Witness ==
  /\ stage = "totalled"
  /\ \E i, j, k \in DOMAIN dedupA :
       /\ dedupA[i].ledger = Str(<<32>>)
       /\ dedupA[j].ledger = Undefined
       /\ dedupA[k].ledger = LedgerA

\* the category a record counts under: "Unknown" for a blank one
CategoryOf(tx) == IF BlankCategory(tx.ledger) THEN UnknownKey ELSE tx.ledger.s
RECURSIVE WithCategory(_, _)
WithCategory(txs, c) ==
  IF txs = <<>> THEN <<>>
  ELSE IF CategoryOf(Head(txs)) = c
    THEN <<Head(txs)>> \o WithCategory(Tail(txs), c)
  ELSE WithCategory(Tail(txs), c)
RECURSIVE SumEntries(_, _)
SumEntries(obj, keys) ==
  IF keys = {} THEN Num(0)
  ELSE LET c == CHOOSE x \in keys : TRUE
       IN JsAdd(obj[c], SumEntries(obj, keys \ {c}))

\* C12: the result of calculateLedgerTotals has an entry for each category
\* of the records (blank folded to "Unknown") and for '*' and no other, the
\* entry of a category is the sum of the amounts of the records of that
\* category, and the entries of the categories add up to the '*' entry.
C12_EntriesPartitionTotal ==
  stage = "totalled" =>
    LET cats == {CategoryOf(dedupA[i]) : i \in DOMAIN dedupA}
    IN /\ DOMAIN totalsA = cats \cup {StarKey}
       /\ \A c \in cats : totalsA[c] = SumAmounts(WithCategory(dedupA, c))
       /\ SumEntries(totalsA, cats) = totalsA[StarKey]

\* C13: deduplicateTransactions applied to its own output returns it
\* unchanged, for the output on the sorted working set and on the working
\* set in any other order, and sorting and deduplicating the output of the
\* sort-then-deduplicate step returns it unchanged as well.
C13_DedupIdempotent ==
  /\ stage \in {"deduplicated", "done"} =>
       /\ deduplicateTransactions(dedupA) = dedupA
       /\ deduplicateTransactions(sortBy(dedupA)) = dedupA
  /\ LET once == deduplicateTransactions(NormalizeAll(rawB))
     IN deduplicateTransactions(once) = once

\* the step dropped two of three equal records
C13_Witness ==
  /\ stage = "deduplicated"
  /\ Len(sortedA) = 3
  /\ Len(dedupA) = 1

IsDecimalText(cs) ==
  LET body == IF cs # <<>> /\ Head(cs) \in {43, 45} THEN Tail(cs) ELSE cs
      rest == SkipDigits(body)
  IN /\ body # <<>>
     /\ IsDigit(Head(body))
     /\ \/ rest = <<>>
        \/ /\ Head(rest) = 46
           /\ Tail(rest) # <<>>
           /\ SkipDigits(Tail(rest)) = <<>>
RECURSIVE PowerOfTen(_)
PowerOfTen(n) == IF n = 0 THEN 1 ELSE 10 * PowerOfTen(n - 1)
\* the integer part of the number a decimal text denotes: the number is
\* its digits read as one integer over ten to the count of the digits
\* after the point, and the quotient is taken on the magnitude
IntegerPart(cs) ==
  LET neg == Head(cs) = 45
      body == IF Head(cs) \in {43, 45} THEN Tail(cs) ELSE cs
      rest == SkipDigits(body)
      fractionLen == IF rest = <<>> THEN 0 ELSE Len(rest) - 1
      magnitude == DigitsValue(SelectSeq(body, IsDigit), 0)
                     \div PowerOfTen(fractionLen)
  IN IF neg THEN 0 - magnitude ELSE magnitude
RECURSIVE Truncated(_)
Truncated(raws) ==
  IF raws = <<>> THEN <<>>
  ELSE <<[normalizeTransaction(Head(raws))
            EXCEPT !.amount = Num(IntegerPart(Head(raws).Amount))]>>
       \o Truncated(Tail(raws))

IsPrefix(f, g) == Len(f) <= Len(g) /\ SubSeq(g, 1, Len(f)) = f
RECURSIVE PushedUpTo(_)
\* the records pushed by the first k answered requests, in order
PushedUpTo(k) == IF k = 0 THEN <<>> ELSE PushedUpTo(k - 1) \o log[k].pushed

\* C16: no step removes or moves a record of the working set (it only
\* grows at its end), it always holds every record pushed so far, and
\* when an accumulated page declares a totalCount at or below the size
\* reached, the result delivered holds the whole working set.
C16_NeverShrinks ==
  /\ [][IsPrefix(transactions, transactions')]_vars
  /\ [](transactions = PushedUpTo(Len(log)))
  /\ []((log # <<>> /\ Last.outcome = "accumulated"
           /\ Last.results.totalCount <= Len(transactions))
         => \E j \in DOMAIN delivered :
              /\ delivered[j].kind = "result"
              /\ delivered[j].transactions = transactions)

\* the second page declared less than what the first had left in the
\* working set, and the result holds the records of both
C16_Witness ==
  /\ Len(log) = 2
  /\ log[1].outcome = "accumulated"
  /\ log[2].outcome = "accumulated"
  /\ log[1].pushed # <<>>
  /\ log[2].pushed # <<>>
  /\ log[2].results.totalCount < Len(log[1].pushed)
  /\ delivered = <<Success(log[1].pushed \o log[2].pushed)>>

RECURSIVE Distinct(_)
\* the sequence without the later copies of its elements
Distinct(f) ==
  IF f = <<>> THEN <<>>
  ELSE LET front == Distinct(SubSeq(f, 1, Len(f) - 1))
       IN IF f[Len(f)] \in Range(front) THEN front
          ELSE Append(front, f[Len(f)])

\* C17: against the source serving pages of 2, 2 and 1 records, each
\* declaring 5, with one record repeated across a page boundary, the run
\* requests pages 1, 2, 3 and no other, and when it has ended the caller
\* has been given one result, whose '*' entry is the sum of the amounts of
\* the four different records.
C17_ScenarioTotal ==
  stage = "source" =>
    /\ IsPrefix(fetches, <<1, 2, 3>>)
    /\ (fetches # <<>> /\ inflight = 0) =>
         /\ fetches = <<1, 2, 3>>
         /\ Len(delivered) = 1
         /\ delivered[1].kind = "result"
         /\ delivered[1].totals[StarKey]
              = SumAmounts(NormalizeAll(Distinct(rawA)))

RECURSIVE RunHeads(_, _)
\* the elements of f from the i-th on that differ from the one before them
RunHeads(f, i) ==
  IF i > Len(f) THEN <<>>
  ELSE (IF i = 1 \/ f[i] # f[i - 1] THEN <<f[i]>> ELSE <<>>)
       \o RunHeads(f, i + 1)

\* C18: the result of deduplicateTransactions on a list in any order is
\* the list without the records that have the same four field values as
\* the record kept last before them, which is the record just before them:
\* the first record of each run of same-valued records, in the order of
\* the list, so the first record is kept and same-valued records that are
\* apart are both kept.
C18_DropsRepeatsOfLastKept ==
  stage = "listDeduplicated" =>
    /\ dedupA = RunHeads(sortedA, 1)
    /\ sortedA # <<>> => dedupA[1] = sortedA[1]

\* C19: each iteration of accumulateTransactions calls next once, whether
\* the request failed, the response was rejected, the processing of the
\* page threw or the page was accumulated; none calls it with an error and
\* with null.
C19_NextOncePerIteration ==
  \A k \in DOMAIN log : Len(log[k].calls) = 1

\* C20: the caller's callback is called at most once in a run, and once
\* the run has no request outstanding it has been called exactly once,
\* with an error or with a result.
C20_CallbackOnce ==
  /\ Len(delivered) <= 1
  /\ (fetches # <<>> /\ inflight = 0) => Len(delivered) = 1

\* C21: when every request is answered, by a page or by an error, the
\* caller is eventually given the outcome of the run, a result or a
\* failure, whatever pages the source serves.
C21_RunEnds == <>(delivered # <<>>)

\* C22: an iteration that ends in an error (the request failed, the
\* response was rejected, or the processing of the page threw) leaves the
\* working set, expectedTotalCount and pageNumber as they were before it.
C22_ErrorLeavesStateUnchanged ==
  [][(Len(log') = Len(log) + 1 /\ log'[Len(log')].outcome # "accumulated")
       => UNCHANGED <<transactions, expectedTotalCount, pageNumber>>]_vars

RECURSIVE AccumulatedUpTo(_)
\* the normalized records of the pages among the first k answered requests
\* that were accumulated, page after page
AccumulatedUpTo(k) ==
  IF k = 0 THEN <<>>
  ELSE AccumulatedUpTo(k - 1)
       \o (IF log[k].outcome = "accumulated"
             THEN NormalizeAll(log[k].results.transactions) ELSE <<>>)

\* C23: in every state of a run the working set is the normalized records
\* of the pages accumulated so far, one for each raw record, page after
\* page, and pageNumber is the number of those pages plus 1.
C23_WorkingSetIsPagesSoFar ==
  /\ transactions = AccumulatedUpTo(Len(log))
  /\ pageNumber
       = Cardinality({k \in DOMAIN log : log[k].outcome = "accumulated"}) + 1

====
